---- MODULE Spec2Model ----
(***************************************************************************)
(* Track-It! -> JIRA migration (Migration.py).                             *)
(*                                                                         *)
(* The model is the polling driver (__main__) running mainloop forever     *)
(* against two external systems: the Track-It! work-order store and the    *)
(* JIRA project.  Every outbound call of mainloop is one action; a call    *)
(* either returns or raises, and an exception that no handler in mainloop  *)
(* catches unwinds to the driver's handler.                                *)
(***************************************************************************)
EXTENDS Integers, Sequences, FiniteSets, TLC

\* ------------------------------------------------------------- bounds
MaxId == 2          \* legacy work-order numbers are 1..MaxId
MaxIssues == 2      \* JIRA stops accepting new issues of these work orders here
MaxFiles == 2       \* files in one work order's attachment folder
MaxDay == 34        \* creation dates are 2024-01-01 and the MaxDay days after
MaxOffset == 6      \* business-day offsets of a due-date table are 1..MaxOffset
MaxCalls == 3       \* requests to one work order are counted up to MaxCalls

\* ------------------------------------------------- program constants
maxResults == 1000  \* "&maxResults=1000" of the cross-reference search
None == 0           \* a JSON null / Python None in a numeric field

Ids == 1..MaxId

\* The priority column of the legacy rows: one row the due-date table of
\* the configuration covers, one it does not list, one of the priorities the
\* mapper rewrites, and so on in turn.
RowPriority(i) ==
    CASE i % 3 = 1 -> "High"
      [] i % 3 = 2 -> "Low"
      [] OTHER -> "Project"

\* ticket_duetime_mapping_days of the configuration: priority -> business days
duedate_map == [p \in {"High", "Routine"} |-> IF p = "High" THEN 1 ELSE 5]

jira_key == "SUP"

\* Exception classes that calls of the program raise.  "HTTPError" is
\* urllib.error.HTTPError, the class the submission handler names.
ExceptionClasses ==
    {"OperationalError", "RequestException", "KeyError", "IndexError",
     "OSError", "HTTPError", "TypeError"}

\* Values of the legacy priority column: those of the configured query
\* (line 332), the one the issue-type rule names besides them (line 176),
\* and one more.
LegacyPriorities ==
    {"Ongoing Support", "High", "Urgent", "Critical", "Routine", "Project",
     "Change Request", "Low"}

\* Project keys: the one of the configuration and the one line 176 names.
ProjectKeys == {jira_key, "CRQ"}

VARIABLES
    workorders,       \* legacy store: id -> "none" | "open" | "closed"
    issues,           \* JIRA: the issues created from work orders, key = index
    other_issues,     \* JIRA: number of further issues of the project
    pc,               \* position of the driver / mainloop
    database_full_output,
    trackit_ids_jira,
    invalid_ids,
    database_full_output_valid,
    idx,              \* position in the list the current loop runs over
    response,         \* response of the submission, [haskey, key]
    jira_link,
    files_left,       \* files of the current attachment folder still to upload
    srq_ids_empty,
    exc,              \* the exception being handled by the driver
    hist,             \* what this run has done so far
    prev,             \* what the previous run did and left behind
    null_row,         \* legacy store: a row without a work-order number exists
    trackit_request,  \* the last request this run sent to the Track-It! API
    counted,          \* AddNote and Close requests sent so far for one id
    legacy_row,       \* field mapper alone: the row and the project key
    json_body,        \* field mapper alone: its payload
    value,            \* due-date step alone: [key, priority, created], table
    duedate           \* due-date step alone: the date it sends

vars == <<workorders, issues, other_issues, pc, database_full_output,
          trackit_ids_jira, invalid_ids, database_full_output_valid, idx,
          response, jira_link, files_left, srq_ids_empty, exc, hist, prev,
          null_row, trackit_request, counted, legacy_row, json_body, value,
          duedate>>

\* The variables of the two functions taken alone.
calc == <<legacy_row, json_body, value, duedate>>

locals == <<database_full_output, trackit_ids_jira, invalid_ids,
            database_full_output_valid, idx, response, jira_link,
            files_left, srq_ids_empty>>

\* ------------------------------------------------------------ helpers
Min(a, b) == IF a < b THEN a ELSE b

Range(s) == {s[k] : k \in DOMAIN s}

NoResponse == [haskey |-> FALSE, key |-> None]

\* What a run has done: the candidate and stuck ids it computed, the ids
\* whose submission failed, those with an upload, a note, a close call, those
\* it created and could not close (cf), the stuck ones it closed (so).
EmptyHist ==
    [cand |-> {}, stuck |-> {}, failed |-> {}, upload |-> {}, noted |-> {},
     closed |-> {}, cf |-> {}, so |-> {}]

\* Requests to the Track-It! web API.  Login carries no work order; AddNote
\* and Close carry the work-order number in the URL and the text built from
\* the JIRA link (lines 98-102, 124-129).
NoRequest ==
    [call |-> "none", TrackItAPIKey |-> None, workorder_id |-> None,
     text |-> <<>>]

\* create_trackit_key's request, with the apiKey of its answer
Login(key) ==
    [call |-> "Login", TrackItAPIKey |-> key, workorder_id |-> None,
     text |-> <<>>]

MovedText(link) == <<"This workorder has been moved to", link>>

AddNoteRequest(key, id, link) ==
    [call |-> "AddNote", TrackItAPIKey |-> key, workorder_id |-> id,
     text |-> MovedText(link)]

CloseRequest(key, id, link) ==
    [call |-> "Close", TrackItAPIKey |-> key, workorder_id |-> id,
     text |-> MovedText(link)]

\* mainloop's trackit_key: the key of the last login of this run, which is
\* the key the last request carried.
trackit_key == trackit_request.TrackItAPIKey

\* The key a login answers with: a new one each time.
create_trackit_key == trackit_key + 1

\* Nothing is counted; and one more request of a kind for work order id.
NoCount == [workorder_id |-> None, AddNote |-> 0, Close |-> 0]

Count(call, id) ==
    IF id = counted.workorder_id
    THEN [counted EXCEPT ![call] = Min(@ + 1, MaxCalls)]
    ELSE counted

\* Before the first run: nothing was done, no dump was written.
NoRun == [cand |-> {}, cf |-> {}, so |-> {}, traceback_file |-> "none"]

\* ------------------------------------------------------ field mapper
\* get_database_cursor, lines 172-179
JiraIssuetype(priority, key) ==
    IF priority = "Project" THEN "Project"
    ELSE IF priority = "Ongoing Support" THEN "Service Management"
    ELSE IF priority = "Change Request" /\ key = "CRQ" THEN "Change Request"
    ELSE "Incident Management"

\* get_database_cursor, lines 191-192
MappedPriorityWithoutChangeRequest(priority) ==
    IF priority = "Ongoing Support" \/ priority = "Project"
    THEN "Routine" ELSE priority

MappedPriority(priority) ==
    IF priority = "Ongoing Support" \/ priority = "Change Request"
       \/ priority = "Project"
    THEN "Routine" ELSE priority

\* get_database_cursor, lines 200-239: the payload of one row
JsonBodyCollapseFirst(row, key) ==
    [customfield_10411 |-> row.wo_num,
     issuetype |-> JiraIssuetype(MappedPriority(row.priority), key),
     priority |-> MappedPriority(row.priority)]

JsonBody(row, key) ==
    [customfield_10411 |-> row.wo_num,
     issuetype |-> JiraIssuetype(row.priority, key),
     priority |-> MappedPriority(row.priority)]

\* The rows the configured query returns: the open work orders
\* (WorkOrderStatusId = 1), highest number first (ORDER BY ... WO_NUM DESC).
RECURSIVE RowsAllStatusesFrom(_, _)
RowsAllStatusesFrom(wo, n) ==
    IF n = 0 THEN <<>>
    ELSE (IF wo[n] # "none"
          THEN <<[wo_num |-> n, priority |-> RowPriority(n)]>>
          ELSE <<>>) \o RowsAllStatusesFrom(wo, n - 1)

RECURSIVE OpenRowsFrom(_, _)
OpenRowsFrom(wo, n) ==
    IF n = 0 THEN <<>>
    ELSE (IF wo[n] = "open"
          THEN <<[wo_num |-> n, priority |-> RowPriority(n)]>>
          ELSE <<>>) \o OpenRowsFrom(wo, n - 1)

AllRows(wo) == RowsAllStatusesFrom(wo, MaxId)

OpenRows(wo) == OpenRowsFrom(wo, MaxId)

\* cursor.fetchall(), line 152: the open work orders, and the row whose
\* work-order number is NULL when the store holds one.
FetchAll(wo) ==
    (IF null_row THEN <<[wo_num |-> None, priority |-> "High"]>> ELSE <<>>)
    \o OpenRows(wo)

\* line 207: int(workorder_number) raises for a value that is no number
IntNeverRaises(v) == FALSE

IntRaises(v) == v = None

\* The loop of lines 152-240 leaves get_database_cursor with an exception
\* at the first row whose number int() refuses.
MappingRaises(rows) == \E k \in DOMAIN rows : IntRaises(rows[k].wo_num)

\* get_database_cursor, lines 152-241
get_database_cursor(wo, key) ==
    LET rows == FetchAll(wo)
    IN  [k \in 1..Len(rows) |-> JsonBody(rows[k], key)]

\* ------------------------------------------------- due-date arithmetic
\* Dates are those of 2024, [y, m, d]; a datetime is the number of days
\* since 2024-01-01, a Monday, so that weekday() is the remainder by 7.
DaysInMonth(m) ==
    CASE m = 2 -> 29
      [] m \in {4, 6, 9, 11} -> 30
      [] OTHER -> 31

RECURSIVE DaysBefore(_)
DaysBefore(m) == IF m = 1 THEN 0 ELSE DaysInMonth(m - 1) + DaysBefore(m - 1)

\* line 426: ticket["fields"]["created"][0:10], the date of the timestamp
DateOf(created) == created.date

\* line 426: pd.to_datetime of a "YYYY-MM-DD" string
to_datetime(date) == DaysBefore(date.m) + date.d - 1

weekday(t) == t % 7

\* line 430: str(timestamp)[0:10]
RECURSIVE DateFrom(_, _)
DateFrom(n, m) ==
    IF n < DaysInMonth(m) THEN [y |-> 2024, m |-> m, d |-> n + 1]
    ELSE DateFrom(n - DaysInMonth(m), m + 1)

DateStr(t) == DateFrom(t, 1)

\* line 430: timestamp + BDay(n), pandas' BusinessDay for n >= 1: whole
\* weeks first, then the rest, past the weekend when the week is left, and
\* from a Saturday or Sunday counted from the Monday after.
BDayAsCalendarDays(t, n) == t + n

BDay(t, n) ==
    LET wday == weekday(t)
        weeks == n \div 5
        r == n - 5 * weeks
        days == IF r = 0 /\ wday > 4 THEN 4 - wday
                ELSE IF wday > 4 THEN (7 - wday) + (r - 1)
                ELSE IF wday + r <= 4 THEN r
                ELSE r + 2
    IN  t + 7 * weeks + days

\* lines 425-430: the due date of one ticket of the sweep
Duedate(v) ==
    DateStr(BDay(to_datetime(DateOf(v.created)), v.table[v.priority]))

\* ------------------------------------------- migration-state detector
\* mainloop, lines 347-348
TrackitIdsTrackit(db) == [k \in 1..Len(db) |-> db[k].customfield_10411]

\* mainloop, lines 351-353: the cross-references of the fetched issues,
\* issues without a value left out
TrackitIdsJira(fetched) ==
    LET HasValue(v) == v # None IN SelectSeq(fetched, HasValue)

\* mainloop, line 354
InvalidIds(ids_trackit, ids_jira) ==
    LET InJira(x) == x \in Range(ids_jira) IN SelectSeq(ids_trackit, InJira)

\* mainloop, lines 355-356
ValidUnfiltered(db, invalid) == db

Valid(db, invalid) ==
    LET NotInvalid(x) == x.customfield_10411 \notin Range(invalid)
    IN  SelectSeq(db, NotInvalid)

\* ------------------------------------------------------------- JIRA
\* The issue JIRA stores for a submitted payload (post_request sends the
\* whole payload, the cross-reference field included).
CreatedIssue(data) ==
    [xref |-> data.customfield_10411, itype |-> data.issuetype,
     priority |-> data.priority, duedate |-> FALSE]

IssueKeys == DOMAIN issues

IdsOf(db) == {db[k].customfield_10411 : k \in DOMAIN db}

\* A search answers with at most maxResults issues of the project, whatever
\* the project holds; which ones is JIRA's choice.  returned is the set of
\* keys of work-order issues among them.  The further issues of the project
\* that are returned carry no cross-reference; one null stands for them.
PageOK(returned) ==
    LET total == Len(issues) + other_issues
        n == Min(total, maxResults)
    IN  /\ Cardinality(returned) <= n
        /\ n - Cardinality(returned) <= other_issues

FetchedFields(returned) ==
    LET keys == [k \in 1..Len(issues) |-> k]
        In(k) == k \in returned
        sel == SelectSeq(keys, In)
        n == Min(Len(issues) + other_issues, maxResults)
    IN  [k \in 1..Len(sel) |-> issues[sel[k]].xref]
        \o (IF n > Cardinality(returned) THEN <<None>> ELSE <<>>)

\* lines 382-383 and 408-410
JiraLinkWithoutKey(key) == <<"browse", None>>

JiraLink(key) == <<"browse", key>>

\* -------------------------------------------------------------- Init
\* The two systems and the driver before the first run.
Start ==
    /\ workorders \in [Ids -> {"none", "open"}]
    /\ issues = <<>>
    /\ other_issues \in {0, maxResults}
    /\ pc = "connect"
    /\ database_full_output = <<>>
    /\ trackit_ids_jira = <<>>
    /\ invalid_ids = <<>>
    /\ database_full_output_valid = <<>>
    /\ idx = 0
    /\ response = NoResponse
    /\ jira_link = <<>>
    /\ files_left = 0
    /\ srq_ids_empty = <<>>
    /\ exc = "none"
    /\ hist = EmptyHist
    /\ prev = NoRun
    /\ null_row = FALSE
    /\ trackit_request = NoRequest
    /\ legacy_row = <<>>
    /\ json_body = <<>>
    /\ value = <<>>
    /\ duedate = <<>>

Init == Start /\ counted = NoCount

\* The same, with the requests for one work order counted.
CountInit == Start /\ \E i \in Ids : counted = [NoCount EXCEPT !.workorder_id = i]

\* ------------------------------------------------- control transfers
\* mainloop's frame is gone, and with it what the run last sent.
ClearLocals ==
    /\ database_full_output' = <<>>
    /\ trackit_ids_jira' = <<>>
    /\ invalid_ids' = <<>>
    /\ database_full_output_valid' = <<>>
    /\ idx' = 0
    /\ response' = NoResponse
    /\ jira_link' = <<>>
    /\ files_left' = 0
    /\ srq_ids_empty' = <<>>
    /\ trackit_request' = NoRequest

\* An exception leaves mainloop (or the connect call): the frame is gone and
\* the driver's except clause is next.
Raise(e) ==
    /\ pc' = "except"
    /\ exc' = e
    /\ ClearLocals

\* Where mainloop goes once the pending loop is over (lines 399, 417).
AfterPendingPcSkipsReconciler(invalid) == "sweep_get"

AfterPendingPc(invalid) == IF Len(invalid) > 0 THEN "s_auth" ELSE "sweep_get"

\* Where mainloop goes after pending record k (line 361).
NextPendingPc(k, valid, invalid) ==
    IF k < Len(valid) THEN "auth" ELSE AfterPendingPc(invalid)

NextPendingIdx(k, valid) == IF k < Len(valid) THEN k + 1 ELSE 1

\* Where mainloop goes after stuck id k (line 401).
NextStuckPc(k, invalid) == IF k < Len(invalid) THEN "s_auth" ELSE "sweep_get"


\* What is left of a run once it is over: its candidates, the ids it
\* created and could not close, the stuck ids it closed, and what it wrote
\* to the traceback file (dump: an exception class, or "none" when mainloop
\* returned).
Summary(h, dump) ==
    [cand |-> h.cand, cf |-> h.cf, so |-> h.so, traceback_file |-> dump]

\* ---------------------------------------------------- exception handling
\* line 374: "except HTTPError" names urllib.error.HTTPError
SubmitCatchesException(e) == TRUE

SubmitCatches(e) == e = "HTTPError"

\* line 476: "except Exception" catches every class the program raises
DriverCatchesHTTPErrorOnly(e) == e = "HTTPError"

DriverCatches(e) == e \in ExceptionClasses

\* line 383: response["key"] raises KeyError when the body has no key
KeyLookupNeverRaises(resp) == FALSE

KeyLookupRaises(resp) == ~resp.haskey

\* --------------------------------------------------------- the driver
\* lines 458-463: pymssql.connect
Connect ==
    /\ pc = "connect"
    /\ \/ /\ pc' = "query"
          /\ UNCHANGED <<exc, locals, trackit_request>>
       \/ Raise("OperationalError")
    /\ UNCHANGED <<workorders, issues, other_issues, hist, prev>>
    /\ UNCHANGED <<null_row, calc, counted>>

\* lines 476-482: the driver's handler
Except ==
    /\ pc = "except"
    /\ IF DriverCatches(exc)
       THEN /\ pc' = "sleep"
            /\ prev' = Summary(hist, exc)
            /\ hist' = EmptyHist
       ELSE /\ pc' = "terminated"
            /\ UNCHANGED <<hist, prev>>
    /\ exc' = "none"
    /\ UNCHANGED <<workorders, issues, other_issues, locals, trackit_request>>
    /\ UNCHANGED <<null_row, calc, counted>>

\* line 484, and the next iteration of "while True"
Sleep ==
    /\ pc = "sleep"
    /\ pc' = "connect"
    /\ UNCHANGED <<workorders, issues, other_issues, locals, exc, hist,
                   prev, trackit_request>>
    /\ UNCHANGED <<null_row, calc, counted>>

\* The legacy system's users open a new work order.  mainloop reads the
\* store once per run, so an arrival during a run shows like one between runs.
OpenWorkOrder ==
    /\ pc = "sleep"
    /\ \E i \in Ids :
          /\ workorders[i] = "none"
          /\ workorders' = [workorders EXCEPT ![i] = "open"]
    /\ UNCHANGED <<issues, other_issues, pc, locals, exc, hist, prev,
                   trackit_request>>
    /\ UNCHANGED <<null_row, calc, counted>>

\* A row without a work-order number gets into the legacy store (and into
\* the result of the configured query).
NullRowAppears ==
    /\ pc = "sleep"
    /\ ~null_row
    /\ null_row' = TRUE
    /\ UNCHANGED <<workorders, issues, other_issues, pc, locals, exc, hist,
                   prev, trackit_request, calc, counted>>

\* ------------------------------------------------- mainloop: detector
\* line 342: get_database_cursor
Query ==
    /\ pc = "query"
    /\ \/ /\ ~MappingRaises(FetchAll(workorders))
          /\ database_full_output' = get_database_cursor(workorders, jira_key)
          /\ hist' = [hist EXCEPT !.cand = IdsOf(database_full_output')]
          /\ pc' = "fetch"
          /\ UNCHANGED <<trackit_ids_jira, invalid_ids, database_full_output_valid,
                         idx, response, jira_link, files_left, srq_ids_empty, exc,
                         trackit_request>>
       \/ /\ MappingRaises(FetchAll(workorders))
          /\ Raise("TypeError")
          /\ UNCHANGED hist
       \/ /\ Raise("OperationalError")
          /\ UNCHANGED hist
    /\ UNCHANGED <<workorders, issues, other_issues, prev>>
    /\ UNCHANGED <<null_row, calc, counted>>

\* lines 347-360: fetch the cross-references, split the candidates
Fetch ==
    /\ pc = "fetch"
    /\ \/ \E returned \in SUBSET IssueKeys :
             /\ PageOK(returned)
             /\ trackit_ids_jira' = TrackitIdsJira(FetchedFields(returned))
             /\ invalid_ids' = InvalidIds(TrackitIdsTrackit(database_full_output),
                                          trackit_ids_jira')
             /\ database_full_output_valid' =
                    Valid(database_full_output, invalid_ids')
             /\ hist' = [hist EXCEPT !.stuck = Range(invalid_ids')]
             /\ idx' = 1
             /\ pc' = IF Len(database_full_output_valid') > 0 THEN "auth"
                      ELSE AfterPendingPc(invalid_ids')
             /\ UNCHANGED <<database_full_output, response, jira_link,
                            files_left, srq_ids_empty, exc, trackit_request>>
       \/ /\ Raise("RequestException")
          /\ UNCHANGED hist
    /\ UNCHANGED <<workorders, issues, other_issues, prev>>
    /\ UNCHANGED <<null_row, calc, counted>>


\* ------------------------------------------------ mainloop: orchestrator
data == database_full_output_valid[idx]

CurId == data.customfield_10411

Did(field, i) == [hist EXCEPT ![field] = @ \cup {i}]

\* Control after pending record idx is finished or skipped.
NextPending ==
    /\ pc' = NextPendingPc(idx, database_full_output_valid, invalid_ids)
    /\ idx' = NextPendingIdx(idx, database_full_output_valid)
    /\ response' = NoResponse
    /\ jira_link' = <<>>
    /\ files_left' = 0
    /\ UNCHANGED <<database_full_output, trackit_ids_jira, invalid_ids,
                   database_full_output_valid, srq_ids_empty, exc>>

\* lines 368-369: create_trackit_key for a pending record
Auth ==
    /\ pc = "auth"
    /\ \/ /\ pc' = "post"
          /\ trackit_request' = Login(create_trackit_key)
          /\ UNCHANGED <<locals, exc>>
       \/ Raise("RequestException")
       \/ Raise("KeyError")
    /\ UNCHANGED <<workorders, issues, other_issues, hist, prev>>
    /\ UNCHANGED <<null_row, calc, counted>>

\* What follows a submission that raised e (lines 374-378): the handler
\* logs and continues with the next record, any other class propagates.
SubmitRaised(e) ==
    /\ hist' = Did("failed", CurId)
    /\ IF SubmitCatches(e)
       THEN NextPending /\ UNCHANGED trackit_request
       ELSE Raise(e)

\* What follows a submission that returned resp (lines 381-388).
SubmitReturned(resp) ==
    IF KeyLookupRaises(resp)
    THEN /\ hist' = Did("failed", CurId)
         /\ Raise("KeyError")
    ELSE /\ hist' = IF resp.haskey THEN hist ELSE Did("failed", CurId)
         /\ response' = resp
         /\ jira_link' = JiraLink(resp.key)
         /\ pc' = "attach"
         /\ UNCHANGED <<database_full_output, trackit_ids_jira, invalid_ids,
                        database_full_output_valid, idx, files_left,
                        srq_ids_empty, exc, trackit_request>>

\* lines 371-388: post_request and what mainloop does with its outcome
Post ==
    /\ pc = "post"
    /\ \/ \* JIRA creates the issue and answers with its key
          /\ Len(issues) < MaxIssues
          /\ issues' = Append(issues, CreatedIssue(data))
          /\ SubmitReturned([haskey |-> TRUE, key |-> Len(issues) + 1])
       \/ \* JIRA rejects the payload: an error body without a key
          /\ issues' = issues
          /\ SubmitReturned([haskey |-> FALSE, key |-> None])
       \/ \* the request fails before JIRA acts on it
          /\ issues' = issues
          /\ SubmitRaised("RequestException")
       \/ \* JIRA creates the issue, the answer is lost
          /\ Len(issues) < MaxIssues
          /\ issues' = Append(issues, CreatedIssue(data))
          /\ SubmitRaised("RequestException")
    /\ UNCHANGED <<workorders, other_issues, prev>>
    /\ UNCHANGED <<null_row, calc, counted>>

\* lines 275-277: import_attachments looks for the work order's folder
Attach ==
    /\ pc = "attach"
    /\ \/ \* no folder
          /\ pc' = "note"
          /\ files_left' = 0
       \/ \E n \in 0..MaxFiles :
             /\ files_left' = n
             /\ pc' = IF n > 0 THEN "upload" ELSE "note"
    /\ UNCHANGED <<workorders, issues, other_issues, database_full_output,
                   trackit_ids_jira, invalid_ids, database_full_output_valid,
                   idx, response, jira_link, srq_ids_empty, exc, hist,
                   prev, trackit_request>>
    /\ UNCHANGED <<null_row, calc, counted>>

\* Whether a failure of post_file_request leaves import_attachments as an
\* exception (lines 258-259, 278-279: nothing catches it).
UploadFailureRaises(e) == TRUE

\* lines 278-279, 256-260: post_file_request for the next file
Upload ==
    /\ pc = "upload"
    /\ \/ \* uploaded; or rejected by JIRA, which the code does not look at
          /\ hist' = Did("upload", CurId)
          /\ files_left' = files_left - 1
          /\ pc' = IF files_left' > 0 THEN "upload" ELSE "note"
          /\ UNCHANGED <<database_full_output, trackit_ids_jira, invalid_ids,
                         database_full_output_valid, idx, response,
                         jira_link, srq_ids_empty, exc, trackit_request>>
       \/ \* the file cannot be opened, or the request fails
          \E e \in {"OSError", "RequestException"} :
             /\ hist' = Did("upload", CurId)
             /\ IF UploadFailureRaises(e)
                THEN Raise(e)
                ELSE /\ files_left' = files_left - 1
                     /\ pc' = IF files_left' > 0 THEN "upload" ELSE "note"
                     /\ UNCHANGED <<database_full_output, trackit_ids_jira,
                                    invalid_ids, database_full_output_valid,
                                    idx, response, jira_link, srq_ids_empty,
                                    exc, trackit_request>>
    /\ UNCHANGED <<workorders, issues, other_issues, prev>>
    /\ UNCHANGED <<null_row, calc, counted>>

\* line 129: whether the AddNote response ends the run; it is assigned and
\* never read
NoteFailureAborts(success) == ~success

NoteResponseAborts(success) == FALSE

\* lines 392-394: post_addnote_request_trackit
Note ==
    /\ pc = "note"
    /\ hist' = Did("noted", CurId)
    /\ \/ \E success \in BOOLEAN :
             /\ counted' = Count("AddNote", CurId)
             /\ IF NoteResponseAborts(success)
                THEN Raise("KeyError")
                ELSE /\ pc' = "close"
                     /\ trackit_request' =
                            AddNoteRequest(trackit_key, CurId, jira_link)
                     /\ UNCHANGED <<locals, exc>>
       \/ /\ Raise("RequestException")
          /\ UNCHANGED counted
    /\ UNCHANGED <<workorders, issues, other_issues, prev>>
    /\ UNCHANGED <<null_row, calc>>

\* lines 103-108: whether the close response ends the run; a reported
\* failure is logged as a warning, a success as information
CloseResponseAborts(success) == FALSE

\* lines 395-396, 98-108: post_close_request_trackit
Close ==
    /\ pc = "close"
    /\ \/ \E success \in BOOLEAN :
             /\ workorders' = IF success
                              THEN [workorders EXCEPT ![CurId] = "closed"]
                              ELSE workorders
             /\ hist' = IF ~success /\ response.haskey
                        THEN [Did("closed", CurId) EXCEPT
                                 !.cf = @ \cup {CurId}]
                        ELSE Did("closed", CurId)
             /\ IF CloseResponseAborts(success)
                THEN Raise("KeyError")
                ELSE /\ NextPending
                     /\ trackit_request' =
                            CloseRequest(trackit_key, CurId, jira_link)
       \/ /\ workorders' = workorders
          /\ hist' = Did("closed", CurId)
          /\ Raise("RequestException")
    /\ counted' = Count("Close", CurId)
    /\ UNCHANGED <<issues, other_issues, prev>>
    /\ UNCHANGED <<null_row, calc>>


\* -------------------------------------------------- mainloop: reconciler
keysAlwaysFirst == invalid_ids[1]

keys == invalid_ids[idx]

\* The issues the search for "TrackIT #" = id matches.
Matches(id) == {k \in IssueKeys : issues[k].xref = id}

NextStuck ==
    /\ pc' = NextStuckPc(idx, invalid_ids)
    /\ idx' = IF idx < Len(invalid_ids) THEN idx + 1 ELSE 1
    /\ jira_link' = <<>>
    /\ UNCHANGED <<database_full_output, trackit_ids_jira, invalid_ids,
                   database_full_output_valid, response, files_left,
                   srq_ids_empty, exc>>

\* lines 402-403
StuckAuth ==
    /\ pc = "s_auth"
    /\ \/ /\ pc' = "s_search"
          /\ trackit_request' = Login(create_trackit_key)
          /\ UNCHANGED <<locals, exc>>
       \/ Raise("RequestException")
       \/ Raise("KeyError")
    /\ UNCHANGED <<workorders, issues, other_issues, hist, prev>>
    /\ UNCHANGED <<null_row, calc, counted>>

\* lines 405-410: the link of the first issue the search returns
StuckSearch ==
    /\ pc = "s_search"
    /\ \/ \E k \in Matches(keys) :
             /\ jira_link' = JiraLink(k)
             /\ pc' = "s_note"
             /\ UNCHANGED <<database_full_output, trackit_ids_jira, invalid_ids,
                            database_full_output_valid, idx, response,
                            files_left, srq_ids_empty, exc, trackit_request>>
       \/ /\ Matches(keys) = {}
          /\ Raise("IndexError")
       \/ Raise("RequestException")
    /\ UNCHANGED <<workorders, issues, other_issues, hist, prev>>
    /\ UNCHANGED <<null_row, calc, counted>>

\* lines 412-413
StuckNote ==
    /\ pc = "s_note"
    /\ hist' = Did("noted", keys)
    /\ \/ \E success \in BOOLEAN :
             /\ counted' = Count("AddNote", keys)
             /\ IF NoteResponseAborts(success)
                THEN Raise("KeyError")
                ELSE /\ pc' = "s_close"
                     /\ trackit_request' =
                            AddNoteRequest(trackit_key, keys, jira_link)
                     /\ UNCHANGED <<locals, exc>>
       \/ /\ Raise("RequestException")
          /\ UNCHANGED counted
    /\ UNCHANGED <<workorders, issues, other_issues, prev>>
    /\ UNCHANGED <<null_row, calc>>

\* lines 414-415, 98-108
StuckClose ==
    /\ pc = "s_close"
    /\ \/ \E success \in BOOLEAN :
             /\ workorders' = IF success
                              THEN [workorders EXCEPT ![keys] = "closed"]
                              ELSE workorders
             /\ hist' = IF success
                        THEN [Did("closed", keys) EXCEPT
                                 !.so = @ \cup {keys}]
                        ELSE Did("closed", keys)
             /\ IF CloseResponseAborts(success)
                THEN Raise("KeyError")
                ELSE /\ NextStuck
                     /\ trackit_request' =
                            CloseRequest(trackit_key, keys, jira_link)
       \/ /\ workorders' = workorders
          /\ hist' = Did("closed", keys)
          /\ Raise("RequestException")
    /\ counted' = Count("Close", keys)
    /\ UNCHANGED <<issues, other_issues, prev>>
    /\ UNCHANGED <<null_row, calc>>

\* ------------------------------------------------ mainloop: due dates
\* lines 419-427: the Incident Management issues without a due date
EmptyDuedates ==
    LET ks == [k \in 1..Len(issues) |-> k]
        Wanted(k) == issues[k].itype = "Incident Management"
                     /\ ~issues[k].duedate
    IN  SelectSeq(ks, Wanted)

\* mainloop returns
Return ==
    /\ pc' = "sleep"
    /\ prev' = Summary(hist, "none")
    /\ hist' = EmptyHist
    /\ ClearLocals
    /\ exc' = exc

SweepGet ==
    /\ pc = "sweep_get"
    /\ \/ IF Len(EmptyDuedates) > 0
          THEN /\ srq_ids_empty' = EmptyDuedates
               /\ idx' = 1
               /\ pc' = "sweep_put"
               /\ UNCHANGED <<database_full_output, trackit_ids_jira,
                              invalid_ids, database_full_output_valid,
                              response, jira_link, files_left, exc, hist,
                              prev, trackit_request>>
          ELSE Return
       \/ /\ Raise("RequestException")
          /\ UNCHANGED <<hist, prev>>
    /\ UNCHANGED <<workorders, issues, other_issues>>
    /\ UNCHANGED <<null_row, calc, counted>>

\* lines 429-436: one pass of the due-date loop
SweepPut ==
    /\ pc = "sweep_put"
    /\ LET key == srq_ids_empty[idx]
           NextValue ==
               IF idx < Len(srq_ids_empty)
               THEN /\ idx' = idx + 1
                    /\ pc' = "sweep_put"
                    /\ UNCHANGED <<database_full_output, trackit_ids_jira,
                                   invalid_ids, database_full_output_valid,
                                   response, jira_link, files_left,
                                   srq_ids_empty, exc, hist, prev,
                                   trackit_request>>
               ELSE Return
       IN  IF issues[key].priority \notin DOMAIN duedate_map
           THEN /\ Raise("KeyError")
                /\ UNCHANGED <<issues, hist, prev>>
           ELSE \/ \E accepted \in BOOLEAN :
                      /\ issues' = IF accepted
                                   THEN [issues EXCEPT ![key].duedate = TRUE]
                                   ELSE issues
                      /\ NextValue
                \/ /\ Raise("RequestException")
                   /\ UNCHANGED <<issues, hist, prev>>
    /\ UNCHANGED <<workorders, other_issues>>
    /\ UNCHANGED <<null_row, calc, counted>>

\* ------------------------------------------------------ specification
Next ==
    \/ Connect
    \/ Query
    \/ Fetch
    \/ Auth
    \/ Post
    \/ Attach
    \/ Upload
    \/ Note
    \/ Close
    \/ StuckAuth
    \/ StuckSearch
    \/ StuckNote
    \/ StuckClose
    \/ SweepGet
    \/ SweepPut
    \/ Except
    \/ Sleep
    \/ OpenWorkOrder
    \/ NullRowAppears

Spec == Init /\ [][Next]_vars


\* The single thread of the program always takes its next step: a call
\* returns or raises, the sleep ends.
Program ==
    \/ Connect \/ Query \/ Fetch \/ Auth \/ Post \/ Attach \/ Upload \/ Note
    \/ Close \/ StuckAuth \/ StuckSearch \/ StuckNote \/ StuckClose
    \/ SweepGet \/ SweepPut \/ Except \/ Sleep

FairSpec == Spec /\ WF_vars(Program)

\* The program with the AddNote and Close requests for one work order
\* counted over the runs.
CountSpec == CountInit /\ [][Next]_vars

\* -------------------------------------- the two functions taken alone
\* The field mapper (one row of get_database_cursor's loop) and the
\* due-date step (one pass of the loop of lines 429-436) applied to inputs
\* of their own, the driver standing still.
run == <<workorders, issues, other_issues, pc, locals, exc, hist, prev,
         null_row, trackit_request, counted>>

CreationDates == {DateStr(t) : t \in 0..MaxDay}

\* ticket["fields"]["created"]: the date and the hour of the timestamp
CreatedStamps == [date : CreationDates, hour : {0, 23}]

\* Due-date tables: the one of the configuration, and those giving every
\* listed priority the same offset.
Tables ==
    {duedate_map} \cup
    {[p \in DOMAIN duedate_map |-> n] : n \in 1..MaxOffset}

\* Priorities of JIRA issues: the listed ones and one that is not.
IssuePriorities == DOMAIN duedate_map \cup {"Low"}

FunctionsInit ==
    /\ workorders = [i \in Ids |-> "none"]
    /\ issues = <<>>
    /\ other_issues = 0
    /\ pc = "connect"
    /\ database_full_output = <<>>
    /\ trackit_ids_jira = <<>>
    /\ invalid_ids = <<>>
    /\ database_full_output_valid = <<>>
    /\ idx = 0
    /\ response = NoResponse
    /\ jira_link = <<>>
    /\ files_left = 0
    /\ srq_ids_empty = <<>>
    /\ exc = "none"
    /\ hist = EmptyHist
    /\ prev = NoRun
    /\ null_row = FALSE
    /\ trackit_request = NoRequest
    /\ counted = NoCount
    /\ json_body = <<>>
    /\ duedate = <<>>
    /\ \/ /\ \E r \in [wo_num : Ids, priority : LegacyPriorities,
                       key : ProjectKeys] : legacy_row = <<r>>
          /\ value = <<>>
       \/ /\ legacy_row = <<>>
          /\ \E v \in [key : {1}, priority : IssuePriorities,
                       created : CreatedStamps, table : Tables] :
                value = <<v>>

\* lines 155-239 for one row
MapRow ==
    /\ legacy_row # <<>>
    /\ json_body = <<>>
    /\ json_body' = <<JsonBody(legacy_row[1], legacy_row[1].key)>>
    /\ UNCHANGED <<run, legacy_row, value, duedate>>

\* line 430 for one value: the date sent, or the KeyError of the lookup
ResolveDuedate ==
    /\ value # <<>>
    /\ duedate = <<>>
    /\ duedate' = IF value[1].priority \in DOMAIN value[1].table
                  THEN <<Duedate(value[1])>>
                  ELSE <<"KeyError">>
    /\ UNCHANGED <<run, legacy_row, json_body, value>>

FunctionsNext == MapRow \/ ResolveDuedate

FunctionsSpec == FunctionsInit /\ [][FunctionsNext]_vars

\* ------------------------------------------------------------- claims
\* The positions of mainloop at which the partitions of this run exist.
InMainloop ==
    pc \in {"auth", "post", "attach", "upload", "note", "close", "s_auth",
            "s_search", "s_note", "s_close", "sweep_get", "sweep_put"}

pending == IdsOf(database_full_output_valid)

stuck == Range(invalid_ids)

\* C1: the target system holds at most one issue per legacy work-order id.
C1_AtMostOneIssuePerId ==
    \A j, k \in IssueKeys :
        (issues[j].xref # None /\ issues[j].xref = issues[k].xref) => j = k

\* C2: every close call made in a run (by the orchestrator or by the
\* reconciler) is for an id that has a target issue carrying it as
\* cross-reference, and never for a record whose submission failed in
\* that run.
C2_CloseOnlyAfterCreate ==
    \A i \in hist.closed : Matches(i) # {} /\ i \notin hist.failed

C2_Witness ==
    \E i, j \in hist.closed : i \in hist.so /\ j \notin hist.stuck

\* C3: a record whose submission failed gets no upload, no note and no
\* close call in that run.
C3_FailedSubmissionLeavesLegacyUntouched ==
    hist.failed \cap (hist.upload \cup hist.noted \cup hist.closed) = {}

C3_Witness ==
    /\ hist.failed # {}
    /\ hist.closed # {}
    /\ hist.upload # {}

\* C4: after a failed submission mainloop goes on with the next pending
\* record, or with the reconciler and the sweep when it was the last one.
C4_SubmitFailureIsolated ==
    [][(pc = "post" /\ hist'.failed # hist.failed)
          => pc' \in {"auth", "s_auth", "sweep_get"}]_vars

\* C5: whatever happens to an attachment upload (no folder, unreadable
\* file, failed request), mainloop goes on with the next file or with the
\* note and the close of that record.
C5_AttachmentFailureDoesNotBlock ==
    [][(pc \in {"attach", "upload"}) => (pc' \in {"upload", "note"})]_vars

\* C6: pending = C \ X and stuck = C \cap X, where C are the candidate ids
\* and X the cross-references fetched; the two are disjoint, together they
\* are C, and an issue without a cross-reference adds nothing to X.
C6_Partition ==
    InMainloop =>
        LET C == Range(TrackitIdsTrackit(database_full_output))
            X == Range(trackit_ids_jira)
        IN  /\ pending = C \ X
            /\ stuck = C \cap X
            /\ pending \cap stuck = {}
            /\ pending \cup stuck = C
            /\ None \notin X
            /\ Len(database_full_output_valid) + Len(invalid_ids)
                   = Len(database_full_output)

C6_Witness ==
    /\ pc = "auth"
    /\ pending # {}
    /\ stuck # {}

\* C7: when the previous run went through and this run has the same
\* candidates, this run's pending set is empty.
C7_SecondRunPendingEmpty ==
    (InMainloop /\ prev.traceback_file = "none" /\ hist.cand = prev.cand)
        => pending = {}

\* C8: a legacy close that reports failure does not end the run, and the
\* record, created and not closed in the previous run, is in stuck (and so
\* with the reconciler) in this one.
C8_CloseFailureRetriedAsStuck ==
    [][/\ (hist'.cf # hist.cf /\ hist'.cf # {}) => pc' # "except"
       /\ InMainloop' => prev'.cf \subseteq stuck']_vars

\* C9: a stuck record the previous run closed is neither stuck nor pending
\* in this run.
C9_ClosedStuckDoesNotReappear ==
    InMainloop => prev.so \cap (stuck \cup pending) = {}

C9_Witness ==
    /\ InMainloop
    /\ prev.so # {}
    /\ stuck # {}

C11_UnlistedPrioritySkipped ==
    [][(pc = "sweep_put"
        /\ issues[srq_ids_empty[idx]].priority \notin DOMAIN duedate_map)
          => (pc' \in {"sweep_put", "sleep"} /\ issues' = issues)]_vars

\* C12: every issue the sweep's query returned gets its due-date update:
\* unless a request of the sweep itself fails, the loop over the returned
\* issues is not left while one of them whose priority the table lists is
\* still to be updated.
C12_SweepUpdatesEveryReturnedIssue ==
    [][(pc = "sweep_put" /\ pc' # "sweep_put" /\ exc' # "RequestException")
          => \A k \in (idx + 1)..Len(srq_ids_empty) :
                issues[srq_ids_empty[k]].priority \notin DOMAIN duedate_map]_vars

\* The day n weekdays after day t, counted one day at a time, Saturdays
\* and Sundays not counted.
RECURSIVE AdvanceWeekdays(_, _)
AdvanceWeekdays(t, n) ==
    IF n = 0 THEN t
    ELSE IF (t + 1) % 7 < 5 THEN AdvanceWeekdays(t + 1, n - 1)
    ELSE AdvanceWeekdays(t + 1, n)

\* C13: for a priority the table lists with offset N >= 1, the due date
\* sent is the creation date advanced by N weekdays, it is never a Saturday
\* or a Sunday, and 2024-01-05 with offset 1 gives 2024-01-08.
C13_DuedateIsNWeekdaysOn ==
    \A k \in DOMAIN duedate :
        LET v == value[1]
        IN  v.priority \in DOMAIN v.table =>
                LET N == v.table[v.priority]
                    c == v.created.date
                    t == DaysBefore(c.m) + c.d - 1
                    due == duedate[k]
                IN  /\ due = DateStr(AdvanceWeekdays(t, N))
                    /\ (DaysBefore(due.m) + due.d - 1) % 7 < 5
                    /\ (c = [y |-> 2024, m |-> 1, d |-> 5] /\ N = 1)
                           => due = [y |-> 2024, m |-> 1, d |-> 8]

C13_Witness ==
    /\ duedate # <<>>
    /\ value[1].priority \in DOMAIN value[1].table
    /\ value[1].table[value[1].priority] = 1
    /\ value[1].created.date = [y |-> 2024, m |-> 1, d |-> 5]
    /\ value[1].created.hour = 23
    /\ duedate[1] = [y |-> 2024, m |-> 1, d |-> 8]

\* C14: the payload's priority is "Routine" for the legacy priorities
\* Ongoing Support, Change Request and Project, and the legacy priority
\* itself for every other value.
C14_PriorityCollapse ==
    \A k \in DOMAIN json_body :
        LET p == legacy_row[1].priority
        IN  json_body[k].priority =
                IF p \in {"Ongoing Support", "Change Request", "Project"}
                THEN "Routine" ELSE p

C14_Witness ==
    /\ json_body # <<>>
    /\ legacy_row[1].priority = "Change Request"
    /\ json_body[1].priority = "Routine"

\* C15: the payload's issue type follows the priority as read from the
\* row: Project -> Project, Ongoing Support -> Service Management, Change
\* Request under the project key CRQ -> Change Request, everything else
\* (Change Request under another key included) -> Incident Management.
C15_IssuetypeFromLegacyPriority ==
    \A k \in DOMAIN json_body :
        LET p == legacy_row[1].priority
            reserved == legacy_row[1].key = "CRQ"
        IN  json_body[k].issuetype =
                CASE p = "Project" -> "Project"
                  [] p = "Ongoing Support" -> "Service Management"
                  [] p = "Change Request" /\ reserved -> "Change Request"
                  [] OTHER -> "Incident Management"

C15_Witness ==
    /\ json_body # <<>>
    /\ legacy_row[1].priority = "Project"
    /\ json_body[1].issuetype = "Project"
    /\ json_body[1].priority = "Routine"

\* C16: for a pending record whose submission returned key K, the AddNote
\* request and the Close request that follows it both carry the record's
\* own work-order number and the text with the browse link of K, and K is
\* the issue created for that record.
C16_NoteAndCloseCarryLinkOfReturnedKey ==
    [][(pc = "close" /\ trackit_request'.call = "Close") =>
          LET id == database_full_output_valid[idx].customfield_10411
              K == response.key
              text == <<"This workorder has been moved to", <<"browse", K>> >>
          IN  /\ response.haskey
              /\ issues[K].xref = id
              /\ trackit_request.call = "AddNote"
              /\ trackit_request.workorder_id = id
              /\ trackit_request.text = text
              /\ trackit_request'.workorder_id = id
              /\ trackit_request'.text = text]_vars

C16_Witness ==
    /\ trackit_request.call = "Close"
    /\ hist.stuck = {}
    /\ trackit_request.workorder_id \in Ids
    /\ \E K \in IssueKeys :
          /\ issues[K].xref = trackit_request.workorder_id
          /\ trackit_request.text[2] = <<"browse", K>>

\* The phase a position of mainloop belongs to: detector, orchestrator,
\* reconciler, due-date sweep; 0 outside mainloop.
PhaseOf(p) ==
    CASE p \in {"query", "fetch"} -> 1
      [] p \in {"auth", "post", "attach", "upload", "note", "close"} -> 2
      [] p \in {"s_auth", "s_search", "s_note", "s_close"} -> 3
      [] p \in {"sweep_get", "sweep_put"} -> 4
      [] OTHER -> 0

\* The place of a call among the calls for one record.
StepOf(p) ==
    CASE p \in {"auth", "s_auth"} -> 1
      [] p \in {"post", "s_search"} -> 2
      [] p \in {"attach", "upload"} -> 3
      [] p \in {"note", "s_note"} -> 4
      [] p \in {"close", "s_close"} -> 5
      [] OTHER -> 0

\* C17: within a run the phases come in the order detector, orchestrator,
\* reconciler, sweep, none of them left before its last record is done and
\* the reconciler not passed over while there are stuck ids; the calls for
\* one record come in the order authenticate, submit, upload, note, close;
\* and the next record's first call comes after the last call for the
\* record before it.
C17_PhasesInOrderRecordsOneAtATime ==
    [][(PhaseOf(pc) > 0 /\ PhaseOf(pc') > 0) =>
          /\ PhaseOf(pc') >= PhaseOf(pc)
          /\ (PhaseOf(pc') = PhaseOf(pc) /\ PhaseOf(pc) \in {2, 3}) =>
                \/ /\ idx' = idx
                   /\ StepOf(pc') > StepOf(pc) \/ pc' = "upload"
                \/ /\ idx' = idx + 1
                   /\ StepOf(pc') = 1
                   /\ pc \in {"post", "close", "s_close"}
          /\ (PhaseOf(pc') > PhaseOf(pc)) =>
                /\ pc \in {"query", "fetch", "post", "close", "s_close"}
                /\ pc = "query" => pc' = "fetch"
                /\ PhaseOf(pc) = 2 => idx = Len(database_full_output_valid)
                /\ PhaseOf(pc) = 3 => idx = Len(invalid_ids)
                /\ PhaseOf(pc') > 2 => database_full_output_valid' = <<>>
                                          \/ PhaseOf(pc) >= 2
                /\ PhaseOf(pc') > 3 => invalid_ids' = <<>> \/ PhaseOf(pc) = 3
                /\ StepOf(pc') \in {0, 1}
                /\ pc' # "sweep_put"
                /\ PhaseOf(pc') \in {2, 3} => idx' = 1]_vars

C17_Witness ==
    /\ pc = "sweep_put"
    /\ hist.so # {}
    /\ hist.closed \ hist.stuck # {}

\* C18: the reconciler's AddNote and Close requests carry the stuck id and
\* the link of an issue whose cross-reference is that id; once the
\* reconciler is through, every stuck id of the run has had its note and
\* its close call; and no issue is created for a stuck id.
C18_ReconcilerNotesAndClosesStuck ==
    /\ [](pc \in {"sweep_get", "sweep_put"}
             => hist.stuck \subseteq (hist.noted \cap hist.closed))
    /\ [][Len(issues') > Len(issues)
             => issues'[Len(issues')].xref \notin hist.stuck]_vars
    /\ [][(pc = "s_close" /\ trackit_request'.call = "Close") =>
             \E K \in IssueKeys :
                LET id == invalid_ids[idx]
                    text == <<"This workorder has been moved to",
                              <<"browse", K>> >>
                IN  /\ issues[K].xref = id
                    /\ trackit_request.call = "AddNote"
                    /\ trackit_request.workorder_id = id
                    /\ trackit_request.text = text
                    /\ trackit_request'.workorder_id = id
                    /\ trackit_request'.text = text]_vars

C18_Witness ==
    /\ pc = "sweep_get"
    /\ Cardinality(hist.stuck) > 1
    /\ hist.so # {}

\* C19: while the query returns a row whose work-order number int()
\* refuses, the run ends in get_database_cursor: no request goes to
\* Track-It! or to JIRA, no issue carries that row's number, and no AddNote
\* or Close request is for it.
C19_UnmappableRowStopsBeforeAnyCall ==
    /\ null_row => /\ pc \in {"sleep", "connect", "query", "except"}
                   /\ trackit_request.call = "none"
    /\ \A K \in IssueKeys : issues[K].xref # None
    /\ trackit_request.call \in {"AddNote", "Close"}
          => trackit_request.workorder_id # None

C19_Witness ==
    /\ null_row
    /\ pc = "except"
    /\ exc = "TypeError"
    /\ \E i \in Ids : workorders[i] = "open"

\* C20: an exception that leaves mainloop ends the run there: a failed
\* submission included, the next position is the driver's handler, the
\* frame with the lists of the run is gone, and nothing is sent to either
\* system until the next run reads the legacy store again.
C20_EscapingExceptionEndsRun ==
    /\ [][exc' # "none" =>
             /\ pc' = "except"
             /\ database_full_output_valid' = <<>>
             /\ invalid_ids' = <<>>
             /\ srq_ids_empty' = <<>>]_vars
    /\ [][(pc = "post" /\ hist'.failed # hist.failed) => pc' = "except"]_vars
    /\ [][(pc \in {"except", "sleep", "connect"}) =>
             /\ pc' \in {"sleep", "connect", "query", "except"}
             /\ issues' = issues
             /\ \A i \in Ids : workorders'[i] = "closed"
                                   <=> workorders[i] = "closed"
             /\ trackit_request' = trackit_request]_vars
    /\ [](pc = "fetch" =>
             database_full_output = get_database_cursor(workorders, jira_key))

C20_Witness ==
    /\ pc = "except"
    /\ exc = "RequestException"
    /\ hist.failed # {}
    /\ hist.cand \ (hist.failed \cup hist.noted) # {}

\* C21: whenever a Close request is about to be sent, the request sent just
\* before it in this run is the AddNote for the same work order, and the
\* Close carries the same key and the same text with the link; after an
\* AddNote the Close follows whatever the AddNote response says (only a
\* failure of the request itself ends the run before it); so the AddNote
\* requests counted for a work order are never fewer than its Close
\* requests, and every pass of the reconciler over a stuck work order sends
\* it one more note.
C21_NoteBeforeEveryClose ==
    /\ [](pc \in {"close", "s_close"} =>
             /\ trackit_request.call = "AddNote"
             /\ trackit_request.workorder_id =
                    IF pc = "close"
                    THEN database_full_output_valid[idx].customfield_10411
                    ELSE invalid_ids[idx]
             /\ trackit_request.text[2] = jira_link)
    /\ [][(trackit_request'.call = "Close" /\ trackit_request.call # "Close")
           =>
             /\ pc \in {"close", "s_close"}
             /\ trackit_request'.workorder_id = trackit_request.workorder_id
             /\ trackit_request'.text = trackit_request.text
             /\ trackit_request'.TrackItAPIKey
                    = trackit_request.TrackItAPIKey]_vars
    /\ [][(pc \in {"note", "s_note"} /\ exc' # "RequestException")
             => pc' \in {"close", "s_close"}]_vars
    /\ [](counted.AddNote >= counted.Close)
    /\ [][(/\ pc = "s_note"
           /\ pc' = "s_close"
           /\ invalid_ids[idx] = counted.workorder_id
           /\ counted.AddNote < MaxCalls)
             => counted'.AddNote = counted.AddNote + 1]_vars

C21_Witness ==
    /\ pc = "s_close"
    /\ invalid_ids[idx] = counted.workorder_id
    /\ prev.cand = {counted.workorder_id}
    /\ counted.AddNote = 3
    /\ counted.Close = 2
    /\ trackit_request.TrackItAPIKey = 1

====
